---- MODULE Spec2Model ----
(***************************************************************************)
(* Model of the audio-reactive dashboard: the 3-D visual element           *)
(* GdmLiveAudioVisuals3D (visual-3d) and the AiGuiApp class (index.tsx).   *)
(*                                                                         *)
(* Numbers that are floats in the program are exact rationals here,        *)
(* records [num, den] in lowest terms; den = 0 is NaN.  Time is in         *)
(* milliseconds and advances in multiples of Tick.                         *)
(***************************************************************************)
EXTENDS Integers, Sequences, FiniteSets, TLC

\* ------------------------------------------------------------------ bounds
MaxTicks == 12        \* the clock stops advancing after MaxTicks * Tick ms
MaxDt == 2            \* at most MaxDt ticks pass between two frames
MaxRequests == 2      \* getUserMedia calls pending at once
MaxStreams == 2       \* streams the browser hands out in a run
MaxChunks == 2        \* chunks a response stream yields
MaxPromptTimers == 2  \* timeouts pending that remove is-invalid

\* ------------------------------------------------------- program constants
PARTICLE_COUNT == 5000
IDLE_DELAY == 3000
FADE_DURATION == 2000
HighBinA == 10
HighBinB == 11

Tick == FADE_DURATION \div 4
MaxTime == MaxTicks * Tick

\* ---------------------------------------------------------------- numbers
Abs(n) == IF n < 0 THEN -n ELSE n

RECURSIVE GCD(_, _)
GCD(a, b) == IF b = 0 THEN a ELSE GCD(b, a % b)

NaN == [num |-> 0, den |-> 0]
IsNaN(x) == x.den = 0

\* n / d in lowest terms, d > 0
Frac(n, d) ==
    LET g == GCD(Abs(n), d)
    IN  [num |-> n \div g, den |-> d \div g]

Num(n) == [num |-> n, den |-> 1]

Add(x, y) ==
    IF IsNaN(x) \/ IsNaN(y) THEN NaN
    ELSE LET g == GCD(x.den, y.den)
             l == (x.den \div g) * y.den
         IN  Frac(x.num * (l \div x.den) + y.num * (l \div y.den), l)

Neg(x) == [num |-> -x.num, den |-> x.den]

Sub(x, y) == Add(x, Neg(y))

Mul(x, y) ==
    IF IsNaN(x) \/ IsNaN(y) THEN NaN
    ELSE LET g1 == GCD(Abs(x.num), y.den)
             g2 == GCD(Abs(y.num), x.den)
             h1 == IF g1 = 0 THEN 1 ELSE g1
             h2 == IF g2 = 0 THEN 1 ELSE g2
         IN  Frac((x.num \div h1) * (y.num \div h2),
                  (x.den \div h2) * (y.den \div h1))

\* x < y, false when either side is NaN (IEEE comparison)
Less(x, y) == ~IsNaN(x) /\ ~IsNaN(y) /\ x.num * y.den < y.num * x.den
LessEq(x, y) == ~IsNaN(x) /\ ~IsNaN(y) /\ x.num * y.den <= y.num * x.den

InUnit(x) == LessEq(Num(0), x) /\ LessEq(x, Num(1))

\* Math.max(0, x)
Max0(x) == IF IsNaN(x) THEN NaN ELSE IF Less(x, Num(0)) THEN Num(0) ELSE x

\* THREE.MathUtils.smootherstep(x, 0, 1)
\* smootherstep without the clamp of its argument
smootherstep_Unclamped(x) ==
    IF IsNaN(x) THEN NaN
    ELSE Mul(Mul(Mul(x, x), x),
             Add(Mul(x, Sub(Mul(x, Num(6)), Num(15))), Num(10)))

smootherstep(x) ==
    IF IsNaN(x) THEN NaN
    ELSE IF LessEq(x, Num(0)) THEN Num(0)
    ELSE IF LessEq(Num(1), x) THEN Num(1)
    ELSE Mul(Mul(Mul(x, x), x),
             Add(Mul(x, Sub(Mul(x, Num(6)), Num(15))), Num(10)))

\* THREE.MathUtils.lerp(x, y, t) = (1 - t) * x + t * y
lerp(x, y, w) == Add(Mul(Sub(Num(1), w), x), Mul(w, y))

\* ------------------------------------------------------------------ inputs
WindowSizes == {16, 128, 512}       \* configured analyser window (fftSize)
ByteSamples == {0, 2, 255}          \* magnitudes of the flat snapshots
RandSeeds == {4242}                 \* values of Math.random() * 10000
Nodes == {1}                    \* audio nodes the host can hand over
Surfaces == {<<800, 600>>, <<1920, 1080>>}
PixelRatios == {2}

Undefined == [undefined |-> TRUE]

VARIABLES
    now,             \* performance.now(), ms
    window,          \* [innerWidth, innerHeight, devicePixelRatio]
    windowSize,      \* the window size the Analyser class is configured with
    \* GdmLiveAudioVisuals3D
    lastInputTime, inputAnalyser, outputAnalyser, inputNode, outputNode,
    canvas, backdrop, camera, renderer, controls, particles, bloomPass,
    afterimagePass, composer, resizeListener, rafPending,
    \* the last call of animation(): its locals, how it ended, what it did
    frame, stepResult, frameTrace, readBins,
    \* AiGuiApp
    currentMode, mediaStream, audioContext, analyserNode, audioDataArray,
    audioTimeDomainArray, visualizerElement, animationFrameId, isAudioReactive,
    bitcoinTimestampInterval, bitcoinCanvasInterval, ghostingMetersAnimation,
    \* the browser: pending getUserMedia calls, streams handed out, scheduled
    \* animate frames, running interval timers, the document
    micPending, streams, svgFrames, timers, dom,
    \* a second run of the render loop on the same timestamps and input
    \* snapshots and its own output snapshots: its idle state, its avgOutput
    twinLastInputTime, twinIdleFactor, twinAvgOutput,
    \* AiGuiApp, the Gemini panel: the client, the flag, the run button, the
    \* spinner, the response text, the sources container, the prompt's
    \* is-invalid class; the generateContentStream calls not yet ended and the
    \* pending timeouts that remove is-invalid
    ai, isLoading, runBtnDisabled, spinnerShown, geminiResponse, sourcesShown,
    promptInvalid, geminiCalls, promptTimers

appVars ==
    <<currentMode, mediaStream, audioContext, analyserNode, audioDataArray,
      audioTimeDomainArray, visualizerElement, animationFrameId,
      isAudioReactive, bitcoinTimestampInterval, bitcoinCanvasInterval,
      ghostingMetersAnimation, micPending, streams, svgFrames, timers, dom>>

visualVars ==
    <<now, window, lastInputTime, canvas, backdrop, camera, renderer,
      controls, particles, bloomPass, afterimagePass, composer,
      resizeListener, rafPending, frame, stepResult, frameTrace, readBins>>

bindingVars == <<windowSize, inputAnalyser, outputAnalyser, inputNode, outputNode>>

twinVars == <<twinLastInputTime, twinIdleFactor, twinAvgOutput>>

geminiVars ==
    <<ai, isLoading, runBtnDisabled, spinnerShown, geminiResponse,
      sourcesShown, promptInvalid, geminiCalls, promptTimers>>

\* ---------------------------------------------------------------- Analyser
frequencyBinCount(fftSize) == fftSize \div 2

UnboundAnalyser == [bound |-> FALSE, node |-> 0, data |-> <<>>]

\* new Analyser(node): binds the node and allocates the buffer once
NewAnalyser(node, fftSize) ==
    [bound |-> TRUE, node |-> node,
     data |-> [i \in 1..frequencyBinCount(fftSize) |-> 0]]

\* analyser.update(): refills the binding's own buffer, same length
AnalyserUpdate(a, snapshot) == [a EXCEPT !.data = snapshot]

Spiky(n, v, hi) ==
    [i \in 1..n |-> IF (i - 1) \in {HighBinA, HighBinB} THEN hi ELSE v]

Snapshots(n) ==
    {Spiky(n, v, v) : v \in ByteSamples} \cup {Spiky(n, 3, 255)}

SnapshotsOf(a) == IF a.bound THEN Snapshots(Len(a.data)) ELSE {<<>>}

\* ------------------------------------------------------ feature extraction
RECURSIVE SumRange(_, _, _)
SumRange(data, lo, hi) ==
    IF lo > hi THEN 0
    ELSE IF lo = hi THEN data[lo]
    ELSE LET mid == (lo + hi) \div 2
         IN  SumRange(data, lo, mid) + SumRange(data, mid + 1, hi)

\* the sums of the snapshots the model draws, computed once
AllSnapshots == UNION {Snapshots(frequencyBinCount(w)) : w \in WindowSizes}
SumTable == [d \in AllSnapshots |-> SumRange(d, 1, Len(d))]

\* data.reduce((a, b) => a + b, 0)
ReduceSum(data) == SumTable[data]

\* data.reduce((a, b) => a + b, 0) / data.length / 255
\* the mean of the bytes, the division by 255 left out
AvgEnergy_NotNormalised(data) == Frac(ReduceSum(data), Len(data))

AvgEnergy(data) == Frac(ReduceSum(data), Len(data) * 255)

\* typed-array read: an index past the end yields undefined, NaN in arithmetic
At(data, i) == IF i < Len(data) THEN Num(data[i + 1]) ELSE NaN

\* the indices of the high band
HighBand(data) == {HighBinA, HighBinB}

\* avgInput taken from the output analyser's data
avgInputOf_FromOutput(inputData, outputData) == AvgEnergy(outputData)

\* avgInput, of the data of the two analysers: the input analyser's mean
avgInputOf(inputData, outputData) == AvgEnergy(inputData)

\* (outputData[10] + outputData[11]) / 2 / 255
HighFreq(data) ==
    Mul(Add(At(data, HighBinA), At(data, HighBinB)), Frac(1, 2 * 255))

\* avgInput > 0.01
\* avgInput > 0: the noise threshold left out
AboveNoise_AnySignal(avgInput) == Less(Num(0), avgInput)

AboveNoise(avgInput) == Less(Frac(1, 100), avgInput)

\* -------------------------------------------------------------- idle state
\* the last input time cleared by a step without input
NextLastInputTime_ClearsWhenQuiet(avgInput, t, last) ==
    IF AboveNoise(avgInput) THEN t ELSE 0

NextLastInputTime(avgInput, t, last) == IF AboveNoise(avgInput) THEN t ELSE last

\* the fade starting at the last input: IDLE_DELAY left out
IdleProgress_NoDelay(timeSinceLastInput) ==
    Max0(Frac(timeSinceLastInput, FADE_DURATION))

IdleProgress(timeSinceLastInput) ==
    Max0(Frac(timeSinceLastInput - IDLE_DELAY, FADE_DURATION))

\* the fade taken in seconds against a time in milliseconds
IdleFactor_FadeInSeconds(timeSinceLastInput) ==
    Sub(Num(1),
        smootherstep(Max0(Frac(timeSinceLastInput - IDLE_DELAY,
                               FADE_DURATION \div 1000))))

IdleFactor(timeSinceLastInput) ==
    Sub(Num(1), smootherstep(IdleProgress(timeSinceLastInput)))

\* ----------------------------------------------------------- the consumers
\* the strength not scaled by the idle factor
BloomStrength_NotIdleScaled(avgOutput, idleFactor) ==
    Add(Frac(3, 2), Mul(avgOutput, Num(2)))

BloomStrength(avgOutput, idleFactor) ==
    Mul(Add(Frac(3, 2), Mul(avgOutput, Num(2))), idleFactor)

BloomRadius(highFreq) == Add(Frac(3, 5), Mul(highFreq, Frac(2, 5)))

Damp(avgOutput) == lerp(Frac(24, 25), Frac(3, 5), Mul(avgOutput, avgOutput))

AutoRotateSpeed(avgInput, idleFactor) ==
    Mul(Add(Frac(1, 5), Mul(avgInput, Num(2))), idleFactor)

\* ------------------------------------------------------- animation(), a step
\* the statements of animation() in source order
\* the idle uniforms written before this step's idle factor is computed
AnimationOrder_IdleLag ==
    << "requestAnimationFrame", "performance.now",
       "inputAnalyser.update", "outputAnalyser.update",
       "backdrop.rand", "backdrop.idleFactor", "particles.uIdleFactor",
       "avgInput", "lastInputTime", "idleFactor",
       "avgOutput", "highFreq",
       "backdrop.uAvgOutput", "backdrop.uHighFreq",
       "bloomPass.strength", "bloomPass.radius", "afterimagePass.damp",
       "particles.uTime", "particles.uOutputAvg", "particles.uOutputHigh",
       "controls.autoRotateSpeed", "controls.update", "composer.render" >>

AnimationOrder ==
    << "requestAnimationFrame", "performance.now",
       "inputAnalyser.update", "outputAnalyser.update",
       "avgInput", "lastInputTime", "idleFactor",
       "backdrop.rand", "backdrop.idleFactor", "particles.uIdleFactor",
       "avgOutput", "highFreq",
       "backdrop.uAvgOutput", "backdrop.uHighFreq",
       "bloomPass.strength", "bloomPass.radius", "afterimagePass.damp",
       "particles.uTime", "particles.uOutputAvg", "particles.uOutputHigh",
       "controls.autoRotateSpeed", "controls.update", "composer.render" >>

\* the particles init() builds: aStartPosition and aRandom hold PARTICLE_COUNT
\* vectors each, aStartPositionVersion is the attribute's version, which
\* counts the rewrites of its array
NewParticles ==
    [aStartPosition |-> PARTICLE_COUNT, aStartPositionVersion |-> 0,
     aRandom |-> PARTICLE_COUNT,
     uTime |-> Num(0), uSize |-> PARTICLE_COUNT,
     uOutputAvg |-> Num(0), uOutputHigh |-> Num(0), uIdleFactor |-> Num(1)]

\* a step that moves the base positions on the CPU and re-uploads them
ParticleUniforms_RewritesBase(p, t, idleFactor, avgOutput, highFreq) ==
    [p EXCEPT !.uIdleFactor = idleFactor,
              !.uTime = Frac(t, 1000),
              !.uOutputAvg = avgOutput,
              !.uOutputHigh = highFreq,
              !.aStartPositionVersion = @ + 1]

\* what a step writes to the particle material
ParticleUniforms(p, t, idleFactor, avgOutput, highFreq) ==
    [p EXCEPT !.uIdleFactor = idleFactor,
              !.uTime = Frac(t, 1000),
              !.uOutputAvg = avgOutput,
              !.uOutputHigh = highFreq]

\* the reschedule left out
requestAnimationFrame_Missing(raf) == raf

\* requestAnimationFrame(() => this.animation()): one more frame pending
requestAnimationFrame(raf) == raf + 1

NoFrame ==
    [t |-> 0, avgInput |-> NaN, idleFactor |-> NaN,
     avgOutput |-> NaN, highFreq |-> NaN]

\* One call of animation() at time t on the objects o, with raf frames
\* pending; inSnap / outSnap are what the audio graph holds when sampled.
animation(t, o, raf, inSnap, outSnap, rnd) ==
    /\ rafPending' = requestAnimationFrame(raf)
    /\ IF ~inputAnalyser.bound
       THEN \* this.inputAnalyser is undefined: TypeError
            /\ stepResult' = "TypeError"
            /\ frameTrace' = SubSeq(AnimationOrder, 1, 3)
            /\ frame' = [NoFrame EXCEPT !.t = t]
            /\ readBins' = {}
            /\ backdrop' = o.backdrop
            /\ particles' = o.particles
            /\ bloomPass' = o.bloomPass
            /\ afterimagePass' = o.afterimagePass
            /\ controls' = o.controls
            /\ UNCHANGED <<lastInputTime, inputAnalyser, outputAnalyser>>
       ELSE IF ~outputAnalyser.bound
       THEN \* the input was sampled, this.outputAnalyser is undefined
            /\ stepResult' = "TypeError"
            /\ frameTrace' = SubSeq(AnimationOrder, 1, 4)
            /\ frame' = [NoFrame EXCEPT !.t = t]
            /\ readBins' = {}
            /\ inputAnalyser' = AnalyserUpdate(inputAnalyser, inSnap)
            /\ backdrop' = o.backdrop
            /\ particles' = o.particles
            /\ bloomPass' = o.bloomPass
            /\ afterimagePass' = o.afterimagePass
            /\ controls' = o.controls
            /\ UNCHANGED <<lastInputTime, outputAnalyser>>
       ELSE \E avgInput \in {avgInputOf(inSnap, outSnap)} :
            \E last \in {NextLastInputTime(avgInput, t, lastInputTime)} :
            \E idleFactor \in {IdleFactor(t - last)} :
            \E avgOutput \in {AvgEnergy(outSnap)} :
            \E highFreq \in {HighFreq(outSnap)} :
            /\ stepResult' = "completed"
            /\ frameTrace' = AnimationOrder
            /\ inputAnalyser' = AnalyserUpdate(inputAnalyser, inSnap)
            /\ outputAnalyser' = AnalyserUpdate(outputAnalyser, outSnap)
            /\ lastInputTime' = last
            /\ frame' = [t |-> t, avgInput |-> avgInput,
                         idleFactor |-> idleFactor,
                         avgOutput |-> avgOutput, highFreq |-> highFreq]
            /\ readBins' = HighBand(outSnap)
            /\ backdrop' = [o.backdrop EXCEPT
                                !.rand = rnd,
                                !.idleFactor = idleFactor,
                                !.uAvgOutput = avgOutput,
                                !.uHighFreq = highFreq]
            /\ particles' = ParticleUniforms(o.particles, t, idleFactor,
                                              avgOutput, highFreq)
            /\ bloomPass' = [o.bloomPass EXCEPT
                                !.strength = BloomStrength(avgOutput, idleFactor),
                                !.radius = BloomRadius(highFreq)]
            /\ afterimagePass' = [o.afterimagePass EXCEPT !.damp = Damp(avgOutput)]
            /\ controls' = [o.controls EXCEPT
                                !.autoRotateSpeed = AutoRotateSpeed(avgInput, idleFactor)]

\* the objects the element holds
Objects ==
    [backdrop |-> backdrop, particles |-> particles, bloomPass |-> bloomPass,
     afterimagePass |-> afterimagePass, controls |-> controls]

\* ------------------------------------------------------------- init(), resize
\* onWindowResize: what it assigns, from the window and the renderer's ratio
ResizedCamera(cam, w, h) == [cam EXCEPT !.aspect = Frac(w, h)]

ResizedResolution(dPR, w, h) == <<w * dPR, h * dPR>>

ResizedRenderer(r, w, h) == [r EXCEPT !.width = w, !.height = h]

\* the composer left at its size
ResizedComposer_Stale(c, w, h) == c

\* composer.setSize(w, h): its targets and every pass get w, h times its ratio
ResizedComposer(c, w, h) ==
    [c EXCEPT !.width = w, !.height = h,
              !.targets = <<w * c.pixelRatio, h * c.pixelRatio>>]

\* ------------------------------------------------------------ the element
VisualInit ==
    /\ now = 0
    /\ window \in {[innerWidth |-> 800, innerHeight |-> 600,
                    devicePixelRatio |-> r] : r \in PixelRatios}
    /\ windowSize \in WindowSizes
    /\ lastInputTime = now
    /\ inputAnalyser = UnboundAnalyser
    /\ outputAnalyser = UnboundAnalyser
    /\ inputNode = 0
    /\ outputNode = 0
    /\ canvas = FALSE
    /\ backdrop = Undefined
    /\ camera = Undefined
    /\ renderer = Undefined
    /\ controls = Undefined
    /\ particles = Undefined
    /\ bloomPass = Undefined
    /\ afterimagePass = Undefined
    /\ composer = Undefined
    /\ resizeListener = FALSE
    /\ rafPending = 0
    /\ frame = NoFrame
    /\ stepResult = "none"
    /\ frameTrace = <<>>
    /\ readBins = {}

\* set inputNode(node)
SetInputNode(node) ==
    /\ inputNode' = node
    /\ inputAnalyser' = NewAnalyser(node, windowSize)

\* set outputNode(node)
SetOutputNode(node) ==
    /\ outputNode' = node
    /\ outputAnalyser' = NewAnalyser(node, windowSize)

\* the host assigns the element's inputNode property
AssignInputNode(node) ==
    /\ node # inputNode
    /\ SetInputNode(node)
    /\ UNCHANGED <<visualVars, appVars, twinVars, geminiVars, windowSize, outputAnalyser,
                   outputNode>>

\* the host assigns the element's outputNode property
AssignOutputNode(node) ==
    /\ node # outputNode
    /\ SetOutputNode(node)
    /\ UNCHANGED <<visualVars, appVars, twinVars, geminiVars, windowSize, inputAnalyser,
                   inputNode>>

\* firstUpdated(): takes the canvas and runs init(), which builds the scene,
\* registers and calls onWindowResize, and makes the first call of animation()
FirstUpdated(dt, inSnap, outSnap, rnd) ==
    LET w == window.innerWidth
        h == window.innerHeight
        dPR == window.devicePixelRatio
        backdrop0 == [resolution |-> <<1, 1>>, rand |-> Num(0),
                      idleFactor |-> Num(1), uAvgOutput |-> Num(0),
                      uHighFreq |-> Num(0)]
        camera0 == [aspect |-> Frac(w, h)]
        renderer0 == [width |-> w, height |-> h, pixelRatio |-> dPR]
        composer0 == [width |-> w, height |-> h, pixelRatio |-> dPR,
                      targets |-> <<w * dPR, h * dPR>>,
                      passes |-> <<"render", "bloom", "afterimage">>]
        o == [backdrop |-> [backdrop0 EXCEPT
                               !.resolution = ResizedResolution(dPR, w, h)],
              particles |-> NewParticles,
              bloomPass |-> [strength |-> Frac(5, 2), radius |-> Frac(4, 5),
                             threshold |-> Num(0)],
              afterimagePass |-> [damp |-> Frac(24, 25)],
              controls |-> [autoRotate |-> TRUE, autoRotateSpeed |-> Frac(1, 2)]]
    IN
    /\ ~canvas
    /\ now + dt * Tick <= MaxTime
    /\ now' = now + dt * Tick
    /\ canvas' = TRUE
    /\ camera' = ResizedCamera(camera0, w, h)
    /\ renderer' = ResizedRenderer(renderer0, w, h)
    /\ composer' = ResizedComposer(composer0, w, h)
    /\ resizeListener' = TRUE
    /\ animation(now', o, rafPending, inSnap, outSnap, rnd)
    /\ UNCHANGED <<appVars, geminiVars, window, windowSize, inputNode,
                   outputNode>>

\* a scheduled animation frame fires: () => this.animation()
Frame(dt, inSnap, outSnap, rnd) ==
    /\ rafPending > 0
    /\ dt >= 1
    /\ now + dt * Tick <= MaxTime
    /\ now' = now + dt * Tick
    /\ animation(now', Objects, rafPending - 1, inSnap, outSnap, rnd)
    /\ UNCHANGED <<appVars, geminiVars, window, windowSize, inputNode,
                   outputNode, canvas, camera,
                   renderer, composer, resizeListener>>

\* the window is resized to w x h; the 'resize' listener, once added, runs
WindowResize(w, h) ==
    /\ <<w, h>> # <<window.innerWidth, window.innerHeight>>
    /\ window' = [window EXCEPT !.innerWidth = w, !.innerHeight = h]
    /\ IF resizeListener
       THEN /\ camera' = ResizedCamera(camera, w, h)
            /\ backdrop' = [backdrop EXCEPT
                   !.resolution = ResizedResolution(renderer.pixelRatio, w, h)]
            /\ renderer' = ResizedRenderer(renderer, w, h)
            /\ composer' = ResizedComposer(composer, w, h)
       ELSE UNCHANGED <<camera, backdrop, renderer, composer>>
    /\ UNCHANGED <<appVars, twinVars, geminiVars, now, bindingVars, lastInputTime, canvas, controls, particles,
                   bloomPass, afterimagePass, resizeListener, rafPending,
                   frame, stepResult, frameTrace, readBins>>

\* ---------------------------------------------------------------- AiGuiApp
Modes == {"gemini", "visualizer", "bitcoin", "ghosting", "status"}

FFT_SIZE == 512

\* the smallest handle the browser has not handed out
FreshId(used) == CHOOSE i \in 1..(Cardinality(used) + 1) : i \notin used

AppInit ==
    /\ currentMode = "gemini"
    /\ mediaStream = 0
    /\ audioContext = FALSE
    /\ analyserNode = 0
    /\ audioDataArray = 0
    /\ audioTimeDomainArray = 0
    /\ visualizerElement = FALSE
    /\ animationFrameId = 0
    /\ isAudioReactive = FALSE
    /\ bitcoinTimestampInterval = 0
    /\ bitcoinCanvasInterval = 0
    /\ ghostingMetersAnimation = FALSE
    /\ micPending = 0
    /\ streams = 0
    /\ svgFrames = {}
    /\ timers = {}
    /\ dom \in [visualizer : {TRUE}, inContainer : BOOLEAN,
                timestampEl : BOOLEAN, message : {FALSE}]

\* stopSvgAudioReaction()
stopSvgAudioReaction ==
    /\ svgFrames' = svgFrames \ {animationFrameId}
    /\ animationFrameId' = 0
    /\ isAudioReactive' = FALSE

\* animate(), with the frames still scheduled and the flag as given
animate(scheduled, reactive, an, arr) ==
    IF an = 0 \/ arr = 0 \/ ~reactive
    THEN /\ svgFrames' = scheduled
         /\ UNCHANGED animationFrameId
    ELSE LET id == FreshId(scheduled \cup {animationFrameId})
         IN  /\ animationFrameId' = id
             /\ svgFrames' = scheduled \cup {id}

\* startSvgAudioReaction() leaving the frame scheduled before in place
startSvgAudioReaction_NoCancel(an, arr) ==
    /\ isAudioReactive' = TRUE
    /\ animate(svgFrames, TRUE, an, arr)

\* startSvgAudioReaction(), the analyser and array being an and arr
startSvgAudioReaction(an, arr) ==
    /\ isAudioReactive' = TRUE
    /\ animate(svgFrames \ {animationFrameId}, TRUE, an, arr)

\* stopBitcoinPanel() clearing the timestamp interval only
stopBitcoinPanel_KeepsCanvas ==
    /\ timers' = timers \ {bitcoinTimestampInterval}
    /\ bitcoinTimestampInterval' = 0
    /\ bitcoinCanvasInterval' = 0

\* stopBitcoinPanel()
stopBitcoinPanel ==
    /\ timers' = timers \ {bitcoinTimestampInterval, bitcoinCanvasInterval}
    /\ bitcoinTimestampInterval' = 0
    /\ bitcoinCanvasInterval' = 0

\* initBitcoinPanel()
initBitcoinPanel ==
    LET kept == timers \ {bitcoinTimestampInterval, bitcoinCanvasInterval}
        a == FreshId(kept)
        b == IF dom.timestampEl THEN FreshId(kept \cup {a}) ELSE a
    IN  /\ bitcoinTimestampInterval' = IF dom.timestampEl THEN a ELSE 0
        /\ bitcoinCanvasInterval' = b
        /\ timers' = kept \cup {a, b}

\* the catch block of initAudioVisualizer: the message replaces the
\* container's content, the element with it when it is inside
ShowMicError ==
    dom' = [dom EXCEPT !.message = TRUE,
                       !.visualizer = IF dom.inContainer THEN FALSE ELSE @]

\* switchMode(mode), up to the await inside initAudioVisualizer()
SwitchMode(mode) ==
    /\ mode # currentMode
    /\ currentMode' = mode
    /\ IF currentMode = "visualizer" /\ mediaStream # 0
       THEN /\ stopSvgAudioReaction
            /\ UNCHANGED <<visualizerElement, micPending>>
       ELSE IF mode = "visualizer"
       THEN IF mediaStream # 0
            THEN /\ startSvgAudioReaction(analyserNode, audioDataArray)
                 /\ UNCHANGED <<visualizerElement, micPending>>
            ELSE /\ visualizerElement' = dom.visualizer
                 /\ IF dom.visualizer
                    THEN /\ micPending < MaxRequests
                         /\ micPending' = micPending + 1
                    ELSE UNCHANGED micPending
                 /\ UNCHANGED <<animationFrameId, isAudioReactive, svgFrames>>
       ELSE UNCHANGED <<visualizerElement, micPending, animationFrameId,
                        isAudioReactive, svgFrames>>
    /\ IF currentMode = "bitcoin" THEN stopBitcoinPanel
       ELSE IF mode = "bitcoin" THEN initBitcoinPanel
       ELSE UNCHANGED <<timers, bitcoinTimestampInterval, bitcoinCanvasInterval>>
    /\ ghostingMetersAnimation' =
          IF currentMode = "ghosting" THEN FALSE
          ELSE IF mode = "ghosting" THEN TRUE
          ELSE ghostingMetersAnimation
    /\ UNCHANGED <<mediaStream, audioContext, analyserNode, audioDataArray,
                   audioTimeDomainArray, streams, dom, visualVars, bindingVars,
                   twinVars, geminiVars>>

\* getUserMedia resolves and initAudioVisualizer() runs on; failAt is the
\* statement of the try block that throws, if one does
MicGranted(failAt) ==
    LET id == streams + 1
    IN
    /\ micPending > 0
    /\ streams < MaxStreams
    /\ micPending' = micPending - 1
    /\ streams' = id
    /\ mediaStream' = id
    /\ audioContext' = TRUE
    /\ IF failAt = "createMediaStreamSource"
       THEN /\ ShowMicError
            /\ UNCHANGED <<analyserNode, audioDataArray, audioTimeDomainArray,
                           inputAnalyser, outputAnalyser, inputNode, outputNode,
                           animationFrameId, isAudioReactive, svgFrames>>
       ELSE /\ analyserNode' = id
            /\ audioDataArray' = frequencyBinCount(FFT_SIZE)
            /\ audioTimeDomainArray' = FFT_SIZE
            /\ IF failAt = "createGain" \/ ~visualizerElement
               THEN /\ ShowMicError
                    /\ UNCHANGED <<inputAnalyser, outputAnalyser, inputNode,
                                   outputNode, animationFrameId,
                                   isAudioReactive, svgFrames>>
               ELSE /\ SetInputNode(id)
                    /\ SetOutputNode(id)
                    /\ startSvgAudioReaction(id, frequencyBinCount(FFT_SIZE))
                    /\ UNCHANGED dom
    /\ UNCHANGED <<currentMode, visualizerElement, bitcoinTimestampInterval,
                   bitcoinCanvasInterval, ghostingMetersAnimation, timers,
                   visualVars, windowSize,
                   twinVars, geminiVars>>

\* the catch block asking for the microphone again
MicDenied_Retries ==
    /\ micPending > 0
    /\ micPending' = micPending
    /\ ShowMicError
    /\ UNCHANGED <<currentMode, mediaStream, audioContext, analyserNode,
                   audioDataArray, audioTimeDomainArray, visualizerElement,
                   animationFrameId, isAudioReactive, bitcoinTimestampInterval,
                   bitcoinCanvasInterval, ghostingMetersAnimation, streams,
                   svgFrames, timers, visualVars, bindingVars,
                   twinVars, geminiVars>>

\* getUserMedia rejects: the catch block
MicDenied ==
    /\ micPending > 0
    /\ micPending' = micPending - 1
    /\ ShowMicError
    /\ UNCHANGED <<currentMode, mediaStream, audioContext, analyserNode,
                   audioDataArray, audioTimeDomainArray, visualizerElement,
                   animationFrameId, isAudioReactive, bitcoinTimestampInterval,
                   bitcoinCanvasInterval, ghostingMetersAnimation, streams,
                   svgFrames, timers, visualVars, bindingVars,
                   twinVars, geminiVars>>

\* a scheduled animate frame fires
SvgFrame(id) ==
    /\ id \in svgFrames
    /\ animate(svgFrames \ {id}, isAudioReactive, analyserNode, audioDataArray)
    /\ UNCHANGED <<currentMode, mediaStream, audioContext, analyserNode,
                   audioDataArray, audioTimeDomainArray, visualizerElement,
                   isAudioReactive, bitcoinTimestampInterval,
                   bitcoinCanvasInterval, ghostingMetersAnimation, micPending,
                   streams, timers, dom, visualVars, bindingVars,
                   twinVars, geminiVars>>

\* ------------------------------------------------------- the Gemini panel
Prompts == {"", "prompt"}

\* init(): the client is constructed, or the constructor throws and the
\* catch block disables the button
GeminiInit ==
    /\ ai \in BOOLEAN
    /\ isLoading = FALSE
    /\ runBtnDisabled = ~ai
    /\ spinnerShown = FALSE
    /\ geminiResponse = "placeholder"
    /\ sourcesShown = FALSE
    /\ promptInvalid = FALSE
    /\ geminiCalls = <<>>
    /\ promptTimers = 0

\* the finally block leaving the flag set
GeminiFinally_KeepsLoading ==
    /\ UNCHANGED isLoading
    /\ runBtnDisabled' = FALSE
    /\ spinnerShown' = FALSE

\* the finally block of runGeminiPrompt
GeminiFinally ==
    /\ isLoading' = FALSE
    /\ runBtnDisabled' = FALSE
    /\ spinnerShown' = FALSE

\* runGeminiPrompt(prompt), up to the await
runGeminiPrompt(prompt) ==
    IF ~ai \/ isLoading
    THEN UNCHANGED <<isLoading, runBtnDisabled, spinnerShown, geminiResponse,
                     sourcesShown, geminiCalls>>
    ELSE /\ isLoading' = TRUE
         /\ runBtnDisabled' = TRUE
         /\ spinnerShown' = TRUE
         /\ geminiResponse' = ""
         /\ sourcesShown' = FALSE
         /\ geminiCalls' = Append(geminiCalls, [stage |-> "awaiting", chunks |-> 0])

\* a click on the run button, which a disabled button does not deliver:
\* handleGeminiRunClick(), the prompt's trimmed value being prompt
GeminiRunClick(prompt) ==
    /\ ~runBtnDisabled
    /\ IF prompt = ""
       THEN /\ promptTimers < MaxPromptTimers
            /\ promptInvalid' = TRUE
            /\ promptTimers' = promptTimers + 1
            /\ UNCHANGED <<isLoading, runBtnDisabled, spinnerShown,
                           geminiResponse, sourcesShown, geminiCalls>>
       ELSE /\ runGeminiPrompt(prompt)
            /\ UNCHANGED <<promptInvalid, promptTimers>>
    /\ UNCHANGED <<ai, appVars, visualVars, bindingVars, twinVars>>

\* the timeout of handleGeminiRunClick fires
PromptTimeout ==
    /\ promptTimers > 0
    /\ promptTimers' = promptTimers - 1
    /\ promptInvalid' = FALSE
    /\ UNCHANGED <<ai, isLoading, runBtnDisabled, spinnerShown, geminiResponse,
                   sourcesShown, geminiCalls, appVars, visualVars,
                   bindingVars, twinVars>>

Without(seq, i) == SubSeq(seq, 1, i - 1) \o SubSeq(seq, i + 1, Len(seq))

\* generateContentStream resolves for call i: the for await loop begins
GeminiStreamOpens(i) ==
    /\ geminiCalls[i].stage = "awaiting"
    /\ geminiCalls' = [geminiCalls EXCEPT ![i].stage = "streaming"]
    /\ UNCHANGED <<ai, isLoading, runBtnDisabled, spinnerShown, geminiResponse,
                   sourcesShown, promptInvalid, promptTimers, appVars,
                   visualVars, bindingVars, twinVars>>

\* the stream of call i yields a chunk: its text is appended
GeminiChunk(i) ==
    /\ geminiCalls[i].stage = "streaming"
    /\ geminiCalls[i].chunks < MaxChunks
    /\ geminiCalls' = [geminiCalls EXCEPT ![i].chunks = @ + 1]
    /\ geminiResponse' = "text"
    /\ UNCHANGED <<ai, isLoading, runBtnDisabled, spinnerShown, sourcesShown,
                   promptInvalid, promptTimers, appVars, visualVars,
                   bindingVars, twinVars>>

\* the stream of call i ends: displayGroundingSources for the last chunk,
\* grounded telling whether it names sources, then the finally block
GeminiStreamEnds(i, grounded) ==
    /\ geminiCalls[i].stage = "streaming"
    /\ geminiCalls' = Without(geminiCalls, i)
    /\ sourcesShown' =
          IF geminiCalls[i].chunks > 0 /\ grounded THEN TRUE ELSE sourcesShown
    /\ GeminiFinally
    /\ UNCHANGED <<ai, geminiResponse, promptInvalid, promptTimers, appVars,
                   visualVars, bindingVars, twinVars>>

\* call i raises, at the await or in the loop: the catch block, then the
\* finally block
GeminiRaises(i) ==
    /\ geminiCalls' = Without(geminiCalls, i)
    /\ geminiResponse' = "error"
    /\ GeminiFinally
    /\ UNCHANGED <<ai, sourcesShown, promptInvalid, promptTimers, appVars,
                   visualVars, bindingVars, twinVars>>

\* ------------------------------------------------------------ the twin run
\* the loop run a second time: the same element, the same timestamps and
\* input snapshots, other output snapshots
TwinInit ==
    /\ twinLastInputTime = 0
    /\ twinIdleFactor = NaN
    /\ twinAvgOutput = NaN

\* the idle state and avgOutput of the twin's call of animation() at t
TwinStep(t, inSnap, outSnap) ==
    IF inputAnalyser.bound /\ outputAnalyser.bound
    THEN \E avgInput \in {avgInputOf(inSnap, outSnap)} :
         \E last \in {NextLastInputTime(avgInput, t, twinLastInputTime)} :
            /\ twinLastInputTime' = last
            /\ twinIdleFactor' = IdleFactor(t - last)
            /\ twinAvgOutput' = AvgEnergy(outSnap)
    ELSE UNCHANGED twinVars

\* what the twin's output analyser may hold: anything but what the first
\* run's holds
TwinSnapshotsOf(a, outSnap) ==
    IF a.bound THEN SnapshotsOf(a) \ {outSnap} ELSE {<<>>}

TwinFirstUpdated(dt, inSnap, outSnap, twinOutSnap, rnd) ==
    /\ FirstUpdated(dt, inSnap, outSnap, rnd)
    /\ TwinStep(now', inSnap, twinOutSnap)

TwinFrame(dt, inSnap, outSnap, twinOutSnap, rnd) ==
    /\ Frame(dt, inSnap, outSnap, rnd)
    /\ TwinStep(now', inSnap, twinOutSnap)

\* ------------------------------------------------------------ specifications
Init == VisualInit /\ AppInit /\ TwinInit /\ GeminiInit

\* the element, its host assigning the two nodes
VisualNext ==
    \/ \E node \in Nodes : AssignInputNode(node)
    \/ \E node \in Nodes : AssignOutputNode(node)
    \/ \E inSnap \in SnapshotsOf(inputAnalyser) :
         \E outSnap \in SnapshotsOf(outputAnalyser) :
            \E dt \in 0..MaxDt, rnd \in RandSeeds :
               FirstUpdated(dt, inSnap, outSnap, Num(rnd)) /\ UNCHANGED twinVars
    \/ \E inSnap \in SnapshotsOf(inputAnalyser) :
         \E outSnap \in SnapshotsOf(outputAnalyser) :
            \E dt \in 1..MaxDt, rnd \in RandSeeds :
               Frame(dt, inSnap, outSnap, Num(rnd)) /\ UNCHANGED twinVars
    \/ \E sz \in Surfaces : WindowResize(sz[1], sz[2])

\* the application
AppNext ==
    \/ \E mode \in Modes : SwitchMode(mode)
    \/ \E failAt \in {"none", "createMediaStreamSource", "createGain"} :
         MicGranted(failAt)
    \/ MicDenied
    \/ \E id \in svgFrames : SvgFrame(id)

\* a generateContentStream call moves on
GeminiProgress ==
    \E i \in DOMAIN geminiCalls :
        \/ GeminiStreamOpens(i)
        \/ GeminiChunk(i)
        \/ \E grounded \in BOOLEAN : GeminiStreamEnds(i, grounded)
        \/ GeminiRaises(i)

\* the Gemini panel
GeminiNext ==
    \/ \E prompt \in Prompts : GeminiRunClick(prompt)
    \/ PromptTimeout
    \/ GeminiProgress

Next == VisualNext \/ AppNext \/ GeminiNext

vars == <<visualVars, bindingVars, appVars, twinVars, geminiVars>>

Spec == Init /\ [][Next]_vars

\* the element alone, in the document as shipped
VisualInitial == Init /\ dom.inContainer /\ dom.timestampEl /\ ai
VisualSpec == VisualInitial /\ [][VisualNext]_vars

\* the element run twice, at one window size
TwinNext ==
    \/ \E node \in Nodes : AssignInputNode(node)
    \/ \E node \in Nodes : AssignOutputNode(node)
    \/ \E inSnap \in SnapshotsOf(inputAnalyser) :
         \E outSnap \in SnapshotsOf(outputAnalyser) :
         \E twinOutSnap \in TwinSnapshotsOf(outputAnalyser, outSnap) :
            \E dt \in 0..MaxDt, rnd \in RandSeeds :
               TwinFirstUpdated(dt, inSnap, outSnap, twinOutSnap, Num(rnd))
    \/ \E inSnap \in SnapshotsOf(inputAnalyser) :
         \E outSnap \in SnapshotsOf(outputAnalyser) :
         \E twinOutSnap \in TwinSnapshotsOf(outputAnalyser, outSnap) :
            \E dt \in 1..MaxDt, rnd \in RandSeeds :
               TwinFrame(dt, inSnap, outSnap, twinOutSnap, Num(rnd))

TwinInitial == VisualInitial /\ windowSize = 128
TwinSpec == TwinInitial /\ [][TwinNext]_vars

\* the application alone, the analysers at one window size
AppInitial == Init /\ windowSize = 128 /\ ai
AppSpec == AppInitial /\ [][AppNext]_vars

\* the Gemini panel alone, the client constructed or not; every call made
\* comes to an end
GeminiInitial == Init /\ windowSize = 128
GeminiSpec == GeminiInitial /\ [][GeminiNext]_vars /\ WF_vars(GeminiProgress)

\* =================================================================== claims
Completed == stepResult = "completed"

\* a call of animation() has just been made
StepTaken == now' # now \/ canvas' # canvas

\* seconds-free helpers of the formulas, independent of the model's operators
Elapsed == frame.t - lastInputTime
Silent(f) == f.avgInput = Num(0)
Loud(f) == f.avgInput.num * 100 > f.avgInput.den
Position(e) == CHOOSE i \in DOMAIN frameTrace : frameTrace[i] = e
Did(e) == \E i \in DOMAIN frameTrace : frameTrace[i] = e
Before(a, b) == Did(a) /\ Did(b) /\ Position(a) < Position(b)

\* C1: a step of the render loop calls update() on an analyser only when the
\* analyser has been bound; with no binding the step skips the features
\* instead of sampling, so no step ends in the TypeError of an undefined
\* analyser.
C1_SamplesOnlyBoundAnalysers ==
    /\ stepResult # "TypeError"
    /\ Did("inputAnalyser.update") => inputAnalyser.bound
    /\ Did("outputAnalyser.update") => outputAnalyser.bound

\* C2: while no node was ever assigned, every step completes with zero
\* features, and from IDLE_DELAY + FADE_DURATION after the start on the idle
\* factor of the backdrop and of the particles is 0.
C2_RunsIdleFadedWithoutCapture ==
    (canvas /\ ~inputAnalyser.bound /\ ~outputAnalyser.bound) =>
        /\ Completed
        /\ frame.avgInput = Num(0)
        /\ frame.avgOutput = Num(0)
        /\ frame.highFreq = Num(0)
        /\ frame.t >= IDLE_DELAY + FADE_DURATION =>
              /\ backdrop.idleFactor = Num(0)
              /\ particles.uIdleFactor = Num(0)

\* the idle factor the rule of the idle state prescribes e ms after the last
\* input: 1 through the delay, 1 - (6p^5 - 15p^4 + 10p^3) through the fade, 0
ExpectedIdle(e) ==
    IF e <= IDLE_DELAY THEN Num(1)
    ELSE IF e >= IDLE_DELAY + FADE_DURATION THEN Num(0)
    ELSE LET p == Frac(e - IDLE_DELAY, FADE_DURATION)
             p3 == Mul(p, Mul(p, p))
             p4 == Mul(p, p3)
             p5 == Mul(p, p4)
         IN  Sub(Num(1), Add(Sub(Mul(Num(6), p5), Mul(Num(15), p4)),
                             Mul(Num(10), p3)))

AbsR(x) == IF x.num < 0 THEN Neg(x) ELSE x

\* C3: with no input since the last active time T, a step at t yields idle
\* factor 1 while t - T <= IDLE_DELAY, a value strictly between 0 and 1 and
\* strictly below that of every earlier step of the fade while
\* IDLE_DELAY < t - T < IDLE_DELAY + FADE_DURATION, and 0 from
\* t - T = IDLE_DELAY + FADE_DURATION on.
C3_IdleTimeline ==
    [][ (StepTaken /\ stepResult' = "completed" /\ Silent(frame')) =>
          LET e == frame'.t - lastInputTime'
              f == backdrop'.idleFactor
          IN  /\ frame'.idleFactor = f
              /\ e <= 3000 => f = Num(1)
              /\ e >= 5000 => f = Num(0)
              /\ (3000 < e /\ e < 5000) =>
                    /\ Less(Num(0), f) /\ Less(f, Num(1))
                    /\ (Completed /\ lastInputTime' = lastInputTime
                          /\ frame.t < frame'.t) =>
                           IF frame.t - lastInputTime <= 3000
                           THEN backdrop.idleFactor = Num(1)
                           ELSE Less(f, backdrop.idleFactor) ]_vars

C3_Witness ==
    /\ Completed /\ Silent(frame)
    /\ Elapsed = 4000
    /\ lastInputTime > 0
    /\ backdrop.idleFactor = Frac(1, 2)

\* C4: a step at t with inputPresence above 0.01 sets lastInputTime to t and
\* computes idle factor 1 in that step; a step with inputPresence at most
\* 0.01 leaves lastInputTime as it was.
C4_ThresholdResetsIdle ==
    [][ (StepTaken /\ stepResult' = "completed") =>
          IF Loud(frame')
          THEN /\ lastInputTime' = frame'.t
               /\ frame'.idleFactor = Num(1)
               /\ backdrop'.idleFactor = Num(1)
               /\ particles'.uIdleFactor = Num(1)
          ELSE lastInputTime' = lastInputTime ]_vars

C4_Witness ==
    /\ Completed /\ Loud(frame)
    /\ frame.avgInput = Frac(29, 680)
    /\ frame.t > IDLE_DELAY + FADE_DURATION
    /\ lastInputTime = frame.t
    /\ backdrop.idleFactor = Num(1)

\* C5: the idle factor written to the backdrop and particle uniforms is
\* within [0, 1] after every step, however long the input has been absent.
C5_IdleFactorInUnitRange ==
    canvas => /\ InUnit(backdrop.idleFactor)
              /\ InUnit(particles.uIdleFactor)

C5_Witness ==
    /\ Completed
    /\ Elapsed > IDLE_DELAY + FADE_DURATION
    /\ backdrop.idleFactor = Num(0)
    /\ particles.uIdleFactor = Num(0)

\* the most the fade curve changes in dt ms: its steepest slope, 15/8 per
\* FADE_DURATION, times dt
FadeAllows(dt) == Frac(15 * dt, 8 * FADE_DURATION)

IdleChange == AbsR(Sub(backdrop'.idleFactor, backdrop.idleFactor))

\* C6 as stated: between two consecutive steps the idle factor changes by no
\* more than the fade curve allows for the time between them, fading out or
\* fading back in.
C6_NoJumpBetweenSteps ==
    [][ (StepTaken /\ Completed /\ stepResult' = "completed") =>
          LessEq(IdleChange, FadeAllows(frame'.t - frame.t)) ]_vars

\* C6 amended: between two consecutive steps of which the later has no input
\* above the threshold, the idle factor changes by no more than the fade
\* curve allows for the time between them; a step with input above the
\* threshold sets it to 1 at once.
C6_FadeOutIsGradual ==
    [][ (StepTaken /\ Completed /\ stepResult' = "completed") =>
          IF Loud(frame')
          THEN backdrop'.idleFactor = Num(1)
          ELSE LessEq(IdleChange, FadeAllows(frame'.t - frame.t)) ]_vars

C6_Witness ==
    /\ Completed /\ ~Loud(frame)
    /\ Elapsed > IDLE_DELAY /\ Elapsed < IDLE_DELAY + FADE_DURATION
    /\ Less(backdrop.idleFactor, Num(1))
    /\ Less(Num(0), backdrop.idleFactor)

Samples == {"inputAnalyser.update", "outputAnalyser.update"}

Features == {"avgInput", "avgOutput", "highFreq"}

\* the consumers written by a step, each with what it is computed from
Uses ==
    [c \in {"backdrop.idleFactor", "particles.uIdleFactor"} |-> {"idleFactor"}]
    @@ [c \in {"backdrop.uAvgOutput", "afterimagePass.damp",
               "particles.uOutputAvg"} |-> {"avgOutput"}]
    @@ [c \in {"backdrop.uHighFreq", "bloomPass.radius",
               "particles.uOutputHigh"} |-> {"highFreq"}]
    @@ [c \in {"bloomPass.strength"} |-> {"avgOutput", "idleFactor"}]
    @@ [c \in {"controls.autoRotateSpeed"} |-> {"avgInput", "idleFactor"}]

Consumers == DOMAIN Uses

IdleConsumers == {c \in Consumers : "idleFactor" \in Uses[c]}

\* the idle consumers hold the idle factor of the step that wrote them: the
\* one that follows from its timestamp and its input sample
IdleConsumersFresh ==
    LET idle == ExpectedIdle(IF Loud(frame) THEN 0 ELSE Elapsed)
    IN  /\ backdrop.idleFactor = idle
        /\ particles.uIdleFactor = idle
        /\ bloomPass.strength =
              Mul(Add(Frac(3, 2), Mul(Num(2), frame.avgOutput)), idle)
        /\ controls.autoRotateSpeed =
              Mul(Add(Frac(1, 5), Mul(Num(2), frame.avgInput)), idle)
        /\ \A c \in IdleConsumers : Before(c, "composer.render")

\* C7 as stated: in a step both analysers are sampled and all features
\* extracted before any consumer is written, and every consumer of the idle
\* factor holds the idle factor of that same step before composer.render().
C7_ExtractThenConsume ==
    Completed =>
        /\ \A e \in Samples \cup Features : \A c \in Consumers : Before(e, c)
        /\ IdleConsumersFresh

\* C7 amended: in a step both analysers are sampled before any consumer is
\* written, every consumer is written after the features and the idle factor
\* it is computed from have been extracted (the idle uniforms are written
\* before avgOutput and highFreq are extracted), and every consumer of the
\* idle factor holds the idle factor of that same step before
\* composer.render().
C7_SampleThenExtractWhatIsConsumed ==
    Completed =>
        /\ \A e \in Samples : \A c \in Consumers : Before(e, c)
        /\ \A e \in Samples : \A f \in Features \cup {"idleFactor"} :
              Before(e, f)
        /\ Before("avgInput", "idleFactor")
        /\ \A c \in Consumers : \A f \in Uses[c] : Before(f, c)
        /\ \A c \in Consumers : Before(c, "composer.render")
        /\ Before("backdrop.idleFactor", "avgOutput")
        /\ IdleConsumersFresh

C7_Witness ==
    /\ Completed
    /\ Elapsed > IDLE_DELAY /\ Elapsed < IDLE_DELAY + FADE_DURATION
    /\ frame.avgOutput = Num(1)
    /\ Less(Num(0), bloomPass.strength)
    /\ Less(bloomPass.strength, Frac(7, 2))
    /\ frameTrace[Len(frameTrace)] = "composer.render"

\* C8: for snapshots of bytes 0..255 at either analyser resolution (64 or
\* 256 bins) the features of a step, avgInput, avgOutput and highFreq, are
\* each within [0, 1].
C8_FeaturesInUnitRange ==
    (Completed /\ Len(outputAnalyser.data) \in {64, 256}) =>
        /\ Len(inputAnalyser.data) = Len(outputAnalyser.data)
        /\ InUnit(frame.avgInput)
        /\ InUnit(frame.avgOutput)
        /\ InUnit(frame.highFreq)

C8_Witness ==
    /\ Completed
    /\ Len(outputAnalyser.data) = 256
    /\ frame.avgInput = Num(1)
    /\ frame.avgOutput = Frac(53, 2720)
    /\ frame.highFreq = Num(1)

\* C9: for every configured bin count, one smaller than 12 included, the bins
\* read for the high-band feature exist in the output snapshot.
C9_HighBandInsideBuffer ==
    Completed =>
        /\ \A i \in readBins : i < Len(outputAnalyser.data)
        /\ ~IsNaN(frame.highFreq)

SvgLoopStops == isAudioReactive /\ ~isAudioReactive'

SvgLoopStarts == ~isAudioReactive /\ isAudioReactive'

\* C10: stopping the loop releases its analyser bindings, and a later restart
\* of the loop binds a fresh analyser instead of the one held before the
\* stop: for the element's analysers and for the loop startSvgAudioReaction
\* starts and stopSvgAudioReaction stops on leaving and re-entering
\* 'visualizer'.
C10_StopReleasesRestartRebinds ==
    [][ /\ SvgLoopStops =>
              /\ analyserNode' = 0
              /\ audioDataArray' = 0
              /\ ~inputAnalyser'.bound
              /\ ~outputAnalyser'.bound
        /\ (SvgLoopStarts /\ analyserNode # 0) =>
              analyserNode' # analyserNode ]_vars

EntersVisualizer == currentMode # "visualizer" /\ currentMode' = "visualizer"

\* C11: getUserMedia is called only by a step that switches the mode to
\* 'visualizer'; the step that ends a request, granted or failed, calls it
\* no more, nor does a frame callback or a timer, so after a failure the
\* next request waits for the user to enter 'visualizer' again.
C11_MicRequestOnlyOnEnteringVisualizer ==
    [][ /\ micPending' > micPending =>
              /\ EntersVisualizer
              /\ micPending' = micPending + 1
        /\ (currentMode' = currentMode /\ (streams' # streams \/ dom' # dom)) =>
              micPending' = micPending - 1 ]_vars

C11_Witness ==
    /\ dom.message
    /\ currentMode = "visualizer"
    /\ mediaStream = 0
    /\ micPending = 1

\* C12: once init has started the loop exactly one next step is pending at
\* any time: every step schedules one as its first statement, so a step that
\* raises part-way leaves the next step scheduled too.
C12_ExactlyOneStepPending ==
    /\ rafPending = IF canvas THEN 1 ELSE 0
    /\ stepResult # "none" =>
          /\ canvas
          /\ frameTrace[1] = "requestAnimationFrame"
          /\ rafPending = 1

C12_Witness ==
    /\ stepResult = "TypeError"
    /\ frame.t >= 3 * Tick
    /\ Len(frameTrace) < Len(AnimationOrder)
    /\ rafPending = 1

\* C13: after init the particle field holds exactly PARTICLE_COUNT base
\* positions, and no step and no resize changes their number or rewrites
\* them: of the particles only the uniforms uTime, uOutputAvg, uOutputHigh
\* and uIdleFactor change.
C13_BasePositionsFixed ==
    canvas =>
        /\ particles.aStartPosition = 5000
        /\ particles.aStartPositionVersion = 0
        /\ particles.aRandom = 5000
        /\ particles.uSize = 5000
        /\ DOMAIN particles =
              {"aStartPosition", "aStartPositionVersion", "aRandom", "uSize",
               "uTime", "uOutputAvg", "uOutputHigh", "uIdleFactor"}

C13_Witness ==
    /\ Completed
    /\ frame.t >= 10 * Tick
    /\ window.innerWidth = 1920
    /\ particles.uOutputAvg = Num(1)
    /\ particles.uIdleFactor = Num(0)
    /\ particles.aStartPosition = PARTICLE_COUNT

\* C14: after a step the bloom strength is (3/2 + 2 * avgOutput) * idleFactor:
\* the idle-scaled base at avgOutput = 0, base plus the full increment, idle
\* scaled, at avgOutput = 1, and 0 at idleFactor = 0; the bloom radius is
\* 3/5 + 2/5 * highFreq whatever the idle factor.
C14_BloomAffine ==
    Completed =>
        LET e == frame.avgOutput
            idle == frame.idleFactor
            viaSum == Add(Mul(Frac(3, 2), idle), Mul(Mul(Num(2), e), idle))
        IN  /\ bloomPass.strength = viaSum
            /\ e = Num(0) => bloomPass.strength = Mul(Frac(3, 2), idle)
            /\ e = Num(1) => bloomPass.strength = Mul(Frac(7, 2), idle)
            /\ idle = Num(0) => bloomPass.strength = Num(0)
            /\ bloomPass.radius =
                  Add(Frac(3, 5), Mul(Frac(2, 5), frame.highFreq))
            /\ bloomPass.threshold = Num(0)

C14_Witness ==
    /\ Completed
    /\ frame.avgOutput = Num(1)
    /\ frame.idleFactor = Frac(1, 2)
    /\ bloomPass.strength = Frac(7, 4)
    /\ bloomPass.radius = Num(1)

\* the afterimage pass keeps damp of the previous frame in each new one:
\* the larger damp, the longer the trail
TrailKept(pass) == pass.damp

\* C15: after a step damp is the interpolation from the long-trail constant
\* 24/25 (avgOutput = 0) to the short-trail constant 3/5 (avgOutput = 1) with
\* weight avgOutput squared, so it lies between the two, and the trailing is
\* subtle at low energy and grows with loudness: a louder step never keeps
\* less of the previous frame than the quieter step before it.
C15_TrailGrowsWithLoudness ==
    [][ (StepTaken /\ Completed /\ stepResult' = "completed") =>
          LET w == Mul(frame'.avgOutput, frame'.avgOutput)
          IN  /\ afterimagePass'.damp =
                    Add(Mul(Sub(Num(1), w), Frac(24, 25)), Mul(w, Frac(3, 5)))
              /\ LessEq(Frac(3, 5), afterimagePass'.damp)
              /\ LessEq(afterimagePass'.damp, Frac(24, 25))
              /\ Less(frame.avgOutput, frame'.avgOutput) =>
                    LessEq(TrailKept(afterimagePass), TrailKept(afterimagePass'))
      ]_vars

\* C16: once the resize listener is registered, after every resize (e.g. from
\* 800x600 to 1920x1080) the camera aspect is the window's width / height, the
\* backdrop resolution is (width * pixelRatio, height * pixelRatio), and the
\* renderer, the composer and the composer's render targets have the
\* window's size: no size from before the resize remains.
C16_ResizeReachesEverySize ==
    resizeListener =>
        LET w == window.innerWidth
            h == window.innerHeight
            r == renderer.pixelRatio
        IN  /\ camera.aspect.num * h = camera.aspect.den * w
            /\ backdrop.resolution = <<w * r, h * r>>
            /\ renderer.width = w /\ renderer.height = h
            /\ composer.width = w /\ composer.height = h
            /\ composer.targets = <<w * r, h * r>>

C16_Witness ==
    /\ Completed
    /\ window.innerWidth = 1920 /\ window.innerHeight = 1080
    /\ camera.aspect = Frac(16, 9)
    /\ backdrop.resolution = <<3840, 2160>>
    /\ composer.targets = <<3840, 2160>>
    /\ frame.t = Tick

\* C17: two runs of the loop given the same timestamps and the same input
\* snapshots, and output snapshots of their own, have the same lastInputTime
\* and the same idle factor after every step.
C17_IdleIgnoresOutput ==
    /\ twinLastInputTime = lastInputTime
    /\ Completed =>
          /\ twinIdleFactor = frame.idleFactor
          /\ twinIdleFactor = backdrop.idleFactor
          /\ twinIdleFactor = particles.uIdleFactor

C17_Witness ==
    /\ Completed
    /\ frame.avgOutput = Num(0)
    /\ twinAvgOutput = Num(1)
    /\ Elapsed = IDLE_DELAY + 2 * Tick
    /\ lastInputTime > 0
    /\ twinIdleFactor = Frac(1, 2)

SvgLoopRunning == isAudioReactive /\ animationFrameId \in svgFrames

\* C18: the loop of startSvgAudioReaction runs only while the mode is
\* 'visualizer', whatever the order of the mode switches and the completion
\* of getUserMedia.
C18_SvgLoopOnlyInVisualizer ==
    SvgLoopRunning => currentMode = "visualizer"

\* C19: at most one getUserMedia call is pending, and at most one stream is
\* ever acquired: a granted stream is not replaced by a second one.
C19_OneMicRequestOneStream ==
    /\ micPending <= 1
    /\ streams <= 1
    /\ mediaStream <= 1

GeminiIdle == ~isLoading /\ ~runBtnDisabled /\ ~spinnerShown

\* C20: at most one generateContentStream call is in flight; while isLoading
\* is set the button takes no click; and every call started, whether its
\* stream completes or raises, ends with isLoading false, the run button
\* enabled and the spinner hidden, so that a later click starts a new one.
C20_OneGeminiRequestAtATime ==
    /\ [](Len(geminiCalls) <= 1)
    /\ [](isLoading <=> Len(geminiCalls) = 1)
    /\ [](isLoading => runBtnDisabled /\ spinnerShown)
    /\ []((ai /\ geminiCalls = <<>>) => GeminiIdle)
    /\ (isLoading ~> GeminiIdle)

C20_Witness ==
    /\ ai
    /\ geminiResponse = "error"
    /\ geminiCalls = <<>>
    /\ GeminiIdle

\* C21: the interval timers of the bitcoin panel are active only while the
\* mode is 'bitcoin', and the active ones are those the two fields hold, one
\* of each kind at most: leaving 'bitcoin' clears both, and entering it again
\* leaves no earlier timer running.
C21_BitcoinTimersOnlyInBitcoinMode ==
    /\ timers \subseteq {bitcoinTimestampInterval, bitcoinCanvasInterval} \ {0}
    /\ Cardinality(timers) <= 2
    /\ currentMode # "bitcoin" =>
          /\ timers = {}
          /\ bitcoinTimestampInterval = 0
          /\ bitcoinCanvasInterval = 0
    /\ currentMode = "bitcoin" =>
          /\ bitcoinCanvasInterval \in timers
          /\ bitcoinTimestampInterval # bitcoinCanvasInterval

C21_Witness ==
    /\ currentMode = "bitcoin"
    /\ Cardinality(timers) = 2
    /\ mediaStream # 0

\* C22: at most one frame callback of the SVG audio reaction is pending at
\* any time, and it is the one animationFrameId holds, so a start while a
\* chain is running leaves one chain; after stopSvgAudioReaction no frame is
\* pending, so no animate step samples the analyser until the next start.
C22_OneSvgFramePending ==
    /\ Cardinality(svgFrames) <= 1
    /\ svgFrames \subseteq {animationFrameId} \ {0}
    /\ ~isAudioReactive => svgFrames = {}

C22_Witness ==
    /\ streams = 2
    /\ isAudioReactive
    /\ svgFrames = {animationFrameId}
    /\ animationFrameId # 0

\* a getUserMedia call ends without the audio graph reaching the element:
\* the request is rejected, or granted and a later statement of the try
\* block throws
AudioInitFails ==
    /\ micPending' = micPending - 1
    /\ inputNode' = inputNode

\* C23: audio initialisation is all or nothing: mediaStream is set only if
\* analyserNode, audioDataArray and audioTimeDomainArray are set too, and a
\* failed initialisation, by a denied request or by a later error of the
\* audio-graph setup, leaves all four as they were, so that the next entry
\* into 'visualizer' asks for the microphone again.
C23_AudioInitAllOrNothing ==
    /\ [](mediaStream # 0 =>
            /\ analyserNode # 0
            /\ audioDataArray # 0
            /\ audioTimeDomainArray # 0)
    /\ [][AudioInitFails =>
            UNCHANGED <<mediaStream, analyserNode, audioDataArray,
                        audioTimeDomainArray>>]_vars

\* the time at which the element is constructed
ConstructionTime == 0

\* C24: in every step of the render loop lastInputTime is at most the step's
\* timestamp, so the elapsed time is never negative; lastInputTime never
\* decreases from one step to the next; and it starts at the construction
\* time of the element, from which the grace period IDLE_DELAY is counted
\* while no input has been present.
C24_LastInputTimeMonotone ==
    /\ [](stepResult = "none" => lastInputTime = ConstructionTime)
    /\ [](stepResult # "none" =>
            /\ lastInputTime <= frame.t
            /\ frame.t - lastInputTime >= 0)
    /\ []((Completed /\ lastInputTime = ConstructionTime
              /\ frame.t - ConstructionTime <= 3000) =>
            frame.idleFactor = Num(1))
    /\ [][lastInputTime' >= lastInputTime]_vars

C24_Witness ==
    /\ Completed
    /\ lastInputTime = ConstructionTime
    /\ frame.t = 3000
    /\ frame.idleFactor = Num(1)
    /\ inputAnalyser.bound
    /\ rafPending = 1

====
